---- MODULE Spec2Model ----
(***************************************************************************)
(* Model of the grove prefix trees: the sparse Trie / TrieNode pair and    *)
(* the dense CardinalTrie / CardinalTrieNode pair.                         *)
(*                                                                         *)
(* Node objects live in an arena `nodes`; a node reference is an index of   *)
(* the arena and Null (0) is the JavaScript null reference.  `new` places   *)
(* the node it creates in the arena slot named by the position the node is *)
(* created for (parent slot and child key), so that equal trees are equal  *)
(* states.  A slot whose object is not in the tree holds whatever          *)
(* deleteChild left in the detached object.                                *)
(***************************************************************************)
EXTENDS Integers, Sequences, FiniteSets, TLC

\* ------------------------------------------------------------------ bounds
MaxLen == 2     \* longest word passed to an operation
MaxNodes == 3   \* most nodes in the tree at once, the root included
MaxIndex == 3   \* largest value of the counter _lastIndex
MaxAutoIndex == 4   \* the same, where only insert and delete are called (SpecAuto)

\* ------------------------------------------------------- values and inputs
Null == 0

\* JavaScript values that are passed as data: [t |-> type, v |-> payload]
NullData == [t |-> "null", v |-> 0]
Undefined == [t |-> "undefined", v |-> 0]
Num(n) == [t |-> "number", v |-> n]
Obj(i) == [t |-> "object", v |-> i]

\* !!data
Truthy(d) == d.t = "object" \/ (d.t = "number" /\ d.v # 0)

\* node.word: <<>> is null, <<w>> is the string w (a sequence of characters)
NullWord == <<>>
SomeWord(w) == <<w>>

\* the characters of the words passed to a dense tree, and to a sparse tree
Chars == {"1", "2", "a"}
SparseSymbols == <<"a", "1">>
WordsOver(cs) == UNION {[1..n -> cs] : n \in 0..MaxLen}
SparseWords == WordsOver({SparseSymbols[i] : i \in 1..Len(SparseSymbols)})
DenseWords == WordsOver(Chars)
\* the data arguments of insert and of update
InsertArgs == {Undefined, Obj(1)}
UpdateArgs == {Num(0), Obj(1)}

\* new CardinalTrie(K, ...): the degree of the dense tree
K == 2
\* the alphabets a dense tree is built with: <<>> is "no alphabet" (null)
Alphabets == {<<>>, << <<"a", "1">> >>}

\* arena slots: the root is slot 1, the node created for child slot i
\* (0-based ordinal of the key) of the node in slot p is slot K * p + i
NodeIds == 1..(K ^ (MaxLen + 1) - 1)
Alloc(p, i) == K * p + i
SymbolOrd(c) == (CHOOSE i \in 1..Len(SparseSymbols) : SparseSymbols[i] = c) - 1

\* ------------------------------------------------------------ TrieNode.ts
\* this._parent of the root (null) and of an unlinked node ({key: "", node: null})
TrieNode_nullParent == [nil |-> TRUE, key |-> "", node |-> Null]
TrieNode_emptyParent == [nil |-> FALSE, key |-> "", node |-> Null]
TrieNode_parent(c, n) == [nil |-> FALSE, key |-> c, node |-> n]

\* children: a function whose domain is the set of keys of this._children
TrieNode_noChildren == [c \in {} |-> Null]

TrieNode_new(parent) ==
    [parent |-> parent, children |-> TrieNode_noChildren, data |-> NullData,
     isEndOfWord |-> FALSE, word |-> NullWord]

\* faulty variant, for sensitivity analysis: the flag is set but the data is not stored
TrieNode_update_flagOnly(n, data) ==
    [n EXCEPT !.isEndOfWord = Truthy(data),
              !.word = IF Truthy(data) THEN @ ELSE NullWord]

\* faulty variant, for sensitivity analysis: the word is kept when the flag is cleared
TrieNode_update_keepWord(n, data) ==
    [n EXCEPT !.isEndOfWord = Truthy(data),
              !.data = data]

TrieNode_update(n, data) ==
    [n EXCEPT !.isEndOfWord = Truthy(data),
              !.data = data,
              !.word = IF Truthy(data) THEN @ ELSE NullWord]

\* faulty variant, for sensitivity analysis: the parent object is kept
TrieNode_unlink_keepParent(n) == n

TrieNode_unlink(n) == [n EXCEPT !.parent = TrieNode_emptyParent]

TrieNode_hasChildren(n) == Cardinality(DOMAIN n.children) > 0

TrieNode_hasChild(n, c) == c \in DOMAIN n.children

TrieNode_addChild(n, c, id) ==
    IF c = "" \/ id = Null THEN n
    ELSE [n EXCEPT !.children = [x \in (DOMAIN @) \cup {c} |-> IF x = c THEN id ELSE @[x]]]

\* this = ns[id]; the child is updated, unlinked and its word cleared, then
\* the key is deleted from this._children
TrieNode_deleteChild(ns, id, c) ==
    IF ~TrieNode_hasChild(ns[id], c) THEN ns
    ELSE LET ch == ns[id].children[c]
             cleared == [TrieNode_unlink(TrieNode_update(ns[ch], NullData)) EXCEPT !.word = NullWord]
         IN [ns EXCEPT ![ch] = cleared,
                       ![id].children = [x \in (DOMAIN @) \ {c} |-> @[x]]]

\* ---------------------------------------------------------------- Trie.ts
\* faulty variant, for sensitivity analysis: ++this._lastIndex
Trie_getNextIndex_preIncrement(li) == [value |-> li + 1, lastIndex |-> li + 1]

\* this._lastIndex++
Trie_getNextIndex(li) == [value |-> li, lastIndex |-> li + 1]

\* faulty variant, for sensitivity analysis: without data, a stored word keeps its data
RECURSIVE Trie_insertWord_keepsData(_, _, _, _, _, _)
Trie_insertWord_keepsData(ns, li, word, data, currentNode, wordIndex) ==
    IF wordIndex = Len(word)
    THEN LET nx == Trie_getNextIndex(li)
             kept == ~Truthy(data) /\ ns[currentNode].isEndOfWord
             d == IF Truthy(data) THEN data
                  ELSE IF kept THEN ns[currentNode].data ELSE Num(nx.value)
             withWord == [ns[currentNode] EXCEPT !.word = SomeWord(word)]
         IN [nodes |-> [ns EXCEPT ![currentNode] = TrieNode_update(withWord, d)],
             lastIndex |-> IF Truthy(data) \/ kept THEN li ELSE nx.lastIndex,
             ret |-> TRUE, threw |-> FALSE, err |-> ""]
    ELSE LET c == word[wordIndex + 1]
             id == Alloc(currentNode, SymbolOrd(c))
             ns1 == IF ~TrieNode_hasChild(ns[currentNode], c)
                    THEN [ns EXCEPT ![id] = TrieNode_new(TrieNode_parent(c, currentNode)),
                                    ![currentNode] = TrieNode_addChild(@, c, id)]
                    ELSE ns
         IN Trie_insertWord_keepsData(ns1, li, word, data, ns1[currentNode].children[c],
                                      wordIndex + 1)

RECURSIVE Trie_insertWord(_, _, _, _, _, _)
Trie_insertWord(ns, li, word, data, currentNode, wordIndex) ==
    IF wordIndex = Len(word)
    THEN LET nx == Trie_getNextIndex(li)
             d == IF Truthy(data) THEN data ELSE Num(nx.value)
             withWord == [ns[currentNode] EXCEPT !.word = SomeWord(word)]
         IN [nodes |-> [ns EXCEPT ![currentNode] = TrieNode_update(withWord, d)],
             lastIndex |-> IF Truthy(data) THEN li ELSE nx.lastIndex,
             ret |-> TRUE, threw |-> FALSE, err |-> ""]
    ELSE LET c == word[wordIndex + 1]
             id == Alloc(currentNode, SymbolOrd(c))
             ns1 == IF ~TrieNode_hasChild(ns[currentNode], c)
                    THEN [ns EXCEPT ![id] = TrieNode_new(TrieNode_parent(c, currentNode)),
                                    ![currentNode] = TrieNode_addChild(@, c, id)]
                    ELSE ns
         IN Trie_insertWord(ns1, li, word, data, ns1[currentNode].children[c], wordIndex + 1)

\* faulty variant, for sensitivity analysis: the node is returned whether or not it is end-of-word
RECURSIVE Trie_searchNode_anyNode(_, _, _, _)
Trie_searchNode_anyNode(ns, word, currentNode, wordIndex) ==
    IF wordIndex = Len(word)
    THEN currentNode
    ELSE LET c == word[wordIndex + 1]
         IN IF TrieNode_hasChild(ns[currentNode], c)
            THEN Trie_searchNode_anyNode(ns, word, ns[currentNode].children[c], wordIndex + 1)
            ELSE Null

RECURSIVE Trie_searchNode(_, _, _, _)
Trie_searchNode(ns, word, currentNode, wordIndex) ==
    IF wordIndex = Len(word)
    THEN IF ns[currentNode].isEndOfWord THEN currentNode ELSE Null
    ELSE LET c == word[wordIndex + 1]
         IN IF TrieNode_hasChild(ns[currentNode], c)
            THEN Trie_searchNode(ns, word, ns[currentNode].children[c], wordIndex + 1)
            ELSE Null

\* whether _searchNode ends in a TypeError: it reads a property of currentNode,
\* which must not be null; it returns null, and does not throw, where
\* hasChild is false
RECURSIVE Trie_searchNode_throws(_, _, _, _)
Trie_searchNode_throws(ns, word, currentNode, wordIndex) ==
    IF currentNode = Null THEN TRUE
    ELSE IF wordIndex = Len(word) THEN FALSE
    ELSE LET c == word[wordIndex + 1]
         IN IF TrieNode_hasChild(ns[currentNode], c)
            THEN Trie_searchNode_throws(ns, word, ns[currentNode].children[c], wordIndex + 1)
            ELSE FALSE

Trie_search(ns, root, word) ==
    LET node == Trie_searchNode(ns, word, root, 0)
    IN IF node # Null THEN ns[node].data ELSE NullData

\* faulty variant, for sensitivity analysis: the child is removed but the removal is not repeated on the parent
Trie_deleteWord_oneLevel(ns, root, currentNode) ==
    IF currentNode = root THEN ns
    ELSE LET parent == ns[currentNode].parent
         IN IF ~parent.nil /\ parent.node # Null
            THEN TrieNode_deleteChild(ns, parent.node, parent.key)
            ELSE ns

RECURSIVE Trie_deleteWord(_, _, _)
Trie_deleteWord(ns, root, currentNode) ==
    IF currentNode = root THEN ns
    ELSE LET parent == ns[currentNode].parent
             linked == ~parent.nil /\ parent.node # Null
             ns1 == IF linked THEN TrieNode_deleteChild(ns, parent.node, parent.key) ELSE ns
         IN IF linked /\ ~TrieNode_hasChildren(ns1[parent.node])
            THEN Trie_deleteWord(ns1, root, parent.node)
            ELSE ns1

\* faulty variant, for sensitivity analysis: the node is cleared and never pruned
Trie_delete_neverPrune(ns, root, word) ==
    LET node == Trie_searchNode(ns, word, root, 0)
    IN IF node = Null THEN [nodes |-> ns, ret |-> FALSE]
       ELSE [nodes |-> [ns EXCEPT ![node] = TrieNode_update(@, NullData)], ret |-> TRUE]

Trie_delete(ns, root, word) ==
    LET node == Trie_searchNode(ns, word, root, 0)
    IN IF node = Null THEN [nodes |-> ns, ret |-> FALSE]
       ELSE IF TrieNode_hasChildren(ns[node])
            THEN [nodes |-> [ns EXCEPT ![node] = TrieNode_update(@, NullData)], ret |-> TRUE]
            ELSE [nodes |-> Trie_deleteWord(ns, root, node), ret |-> TRUE]

Trie_update(ns, root, word, data) ==
    LET node == Trie_searchNode(ns, word, root, 0)
    IN IF node = Null THEN [nodes |-> ns, ret |-> FALSE]
       ELSE [nodes |-> [ns EXCEPT ![node] = TrieNode_update(@, data)], ret |-> TRUE]

Trie_getDataNode(ns, root, word) == Trie_searchNode(ns, word, root, 0)

\* path = [root]; for (i = 1; i <= word.length; i++) path.push(_searchNode(word.substring(0, i)))
RECURSIVE Trie_getPathLoop(_, _, _, _, _)
Trie_getPathLoop(ns, root, word, i, path) ==
    IF i <= Len(word)
    THEN Trie_getPathLoop(ns, root, word, i + 1,
                          Append(path, Trie_searchNode(ns, SubSeq(word, 1, i), root, 0)))
    ELSE path

\* faulty variant, for sensitivity analysis: the loop condition is i < word.length
Trie_getPath_skipLast(ns, root, word) ==
    Trie_getPathLoop(ns, root, SubSeq(word, 1, Len(word) - 1), 1, <<root>>)

Trie_getPath(ns, root, word) == Trie_getPathLoop(ns, root, word, 1, <<root>>)

\* ---------------------------------------------------- CardinalTrieNode.js
\* the key of an unlinked node's parent object ({key: null, node: null})
NullKey == -1
CardinalTrieNode_nullParent == [nil |-> TRUE, key |-> NullKey, node |-> Null]
CardinalTrieNode_emptyParent == [nil |-> FALSE, key |-> NullKey, node |-> Null]
CardinalTrieNode_parent(index, n) == [nil |-> FALSE, key |-> index, node |-> n]

\* new Array(k).fill(null)
CardinalTrieNode_new(parent, k) ==
    [parent |-> parent, k |-> k, children |-> [i \in 0..(k - 1) |-> Null],
     data |-> NullData, isEndOfWord |-> FALSE, word |-> NullWord]

\* faulty variant, for sensitivity analysis: the flag is set for present data and never cleared
CardinalTrieNode_update_keepFlag(n, data) ==
    [n EXCEPT !.isEndOfWord = @ \/ Truthy(data),
              !.data = data,
              !.word = IF n.isEndOfWord \/ Truthy(data) THEN @ ELSE NullWord]

CardinalTrieNode_update(n, data) ==
    [n EXCEPT !.isEndOfWord = Truthy(data),
              !.data = data,
              !.word = IF Truthy(data) THEN @ ELSE NullWord]

CardinalTrieNode_unlink(n) == [n EXCEPT !.parent = CardinalTrieNode_emptyParent]

CardinalTrieNode_hasChildren(n) == \E i \in DOMAIN n.children : n.children[i] # Null

CardinalTrieNode_hasChild(n, index) ==
    index >= 0 /\ index < n.k /\ n.children[index] # Null

CardinalTrieNode_addChild(n, index, id) ==
    IF index < 0 \/ index >= n.k \/ id = Null THEN n
    ELSE [n EXCEPT !.children[index] = id]

\* faulty variant, for sensitivity analysis: the child is not unlinked
CardinalTrieNode_deleteChild_keepLink(ns, id, index) ==
    IF index < 0 \/ index >= ns[id].k \/ ns[id].children[index] = Null THEN ns
    ELSE LET ch == ns[id].children[index]
             cleared == [CardinalTrieNode_update(ns[ch], NullData) EXCEPT !.word = NullWord]
         IN [ns EXCEPT ![ch] = cleared, ![id].children[index] = Null]

CardinalTrieNode_deleteChild(ns, id, index) ==
    IF index < 0 \/ index >= ns[id].k \/ ns[id].children[index] = Null THEN ns
    ELSE LET ch == ns[id].children[index]
             cleared == [CardinalTrieNode_unlink(CardinalTrieNode_update(ns[ch], NullData))
                            EXCEPT !.word = NullWord]
         IN [ns EXCEPT ![ch] = cleared, ![id].children[index] = Null]

\* -------------------------------------------------------- CardinalTrie.js
\* the alphabet arguments new CardinalTrie(K, alphabet) is called with: null
\* (<<>>), and arrays of distinct symbols of the lengths 0 to K + 1
AlphabetArgs ==
    Alphabets \cup {<< <<>> >>, << <<"a">> >>, << <<"a", "1", "2">> >>}

\* new CardinalTrie(k, alphabet): an array, also an empty one, is truthy
CardinalTrie_constructor(k, alphabet) ==
    IF alphabet # <<>> /\ Len(alphabet[1]) # k
    THEN [threw |-> TRUE, err |-> "Alphabet length must match the k", alphabet |-> <<>>]
    ELSE [threw |-> FALSE, err |-> "", alphabet |-> alphabet]

\* faulty variant, for sensitivity analysis: charToIndex[alphabet[i]] = alphabet.length - 1 - i
CardinalTrie_charToIndex_reversed(alpha) ==
    [c \in {alpha[i] : i \in 1..Len(alpha)} |->
        Len(alpha) - 1 -
        (CHOOSE i \in 0..(Len(alpha) - 1) :
            /\ alpha[i + 1] = c
            /\ \A j \in 0..(Len(alpha) - 1) : alpha[j + 1] = c => j <= i)]

\* for (i = 0; i < alphabet.length; i++) this.charToIndex[alphabet[i]] = i
\* (a later duplicate overwrites an earlier one)
CardinalTrie_charToIndex(alpha) ==
    [c \in {alpha[i] : i \in 1..Len(alpha)} |->
        CHOOSE i \in 0..(Len(alpha) - 1) :
            /\ alpha[i + 1] = c
            /\ \A j \in 0..(Len(alpha) - 1) : alpha[j + 1] = c => j <= i]

\* parseInt(ch, 10) of a one-character string; NaN is the result for a non-digit
NaN == -1
DigitChars == <<"0", "1", "2", "3", "4", "5", "6", "7", "8", "9">>
ParseInt(c) ==
    IF \E i \in 1..Len(DigitChars) : DigitChars[i] = c
    THEN (CHOOSE i \in 1..Len(DigitChars) : DigitChars[i] = c) - 1
    ELSE NaN
IsNaN(x) == x = NaN

\* the symbol-to-slot resolution shared by _insertWord and _searchNode:
\* valid is FALSE where _insertWord throws and _searchNode returns null
CardinalTrie_resolve(k, alphabet, c) ==
    IF alphabet # <<>>
    THEN LET charToIndex == CardinalTrie_charToIndex(alphabet[1])
         IN IF c \notin DOMAIN charToIndex
            THEN [valid |-> FALSE, index |-> NullKey]
            ELSE [valid |-> TRUE, index |-> charToIndex[c]]
    ELSE LET index == ParseInt(c)
         IN IF IsNaN(index) \/ index < 0 \/ index >= k
            THEN [valid |-> FALSE, index |-> index]
            ELSE [valid |-> TRUE, index |-> index]

\* faulty variant, for sensitivity analysis: return this._lastIndex
CardinalTrie_getNextIndex_noIncrement(li) == [value |-> li, lastIndex |-> li]

CardinalTrie_getNextIndex(li) == [value |-> li, lastIndex |-> li + 1]

\* faulty variant, for sensitivity analysis: the child is created without the hasChild test
RECURSIVE CardinalTrie_insertWord_overwrite(_, _, _, _, _, _, _, _)
CardinalTrie_insertWord_overwrite(ns, li, k, alphabet, word, data, currentNode, wordIndex) ==
    IF wordIndex = Len(word)
    THEN LET nx == CardinalTrie_getNextIndex(li)
             d == IF Truthy(data) THEN data ELSE Num(nx.value)
             withWord == [ns[currentNode] EXCEPT !.word = SomeWord(word)]
         IN [nodes |-> [ns EXCEPT ![currentNode] = CardinalTrieNode_update(withWord, d)],
             lastIndex |-> IF Truthy(data) THEN li ELSE nx.lastIndex,
             ret |-> TRUE, threw |-> FALSE, err |-> ""]
    ELSE LET c == word[wordIndex + 1]
             r == CardinalTrie_resolve(k, alphabet, c)
             id == Alloc(currentNode, r.index)
             ns1 == [ns EXCEPT ![id] = CardinalTrieNode_new(
                                           CardinalTrieNode_parent(r.index, currentNode), k),
                               ![currentNode] = CardinalTrieNode_addChild(@, r.index, id)]
         IN IF ~r.valid
            THEN [nodes |-> ns, lastIndex |-> li, ret |-> FALSE, threw |-> TRUE, err |-> c]
            ELSE CardinalTrie_insertWord_overwrite(ns1, li, k, alphabet, word, data,
                                                   ns1[currentNode].children[r.index],
                                                   wordIndex + 1)

\* faulty variant, for sensitivity analysis: the error names the last symbol of the word
RECURSIVE CardinalTrie_insertWord_lastSymbol(_, _, _, _, _, _, _, _)
CardinalTrie_insertWord_lastSymbol(ns, li, k, alphabet, word, data, currentNode, wordIndex) ==
    IF wordIndex = Len(word)
    THEN LET nx == CardinalTrie_getNextIndex(li)
             d == IF Truthy(data) THEN data ELSE Num(nx.value)
             withWord == [ns[currentNode] EXCEPT !.word = SomeWord(word)]
         IN [nodes |-> [ns EXCEPT ![currentNode] = CardinalTrieNode_update(withWord, d)],
             lastIndex |-> IF Truthy(data) THEN li ELSE nx.lastIndex,
             ret |-> TRUE, threw |-> FALSE, err |-> ""]
    ELSE LET c == word[wordIndex + 1]
             r == CardinalTrie_resolve(k, alphabet, c)
             id == Alloc(currentNode, r.index)
             ns1 == IF ~CardinalTrieNode_hasChild(ns[currentNode], r.index)
                    THEN [ns EXCEPT ![id] = CardinalTrieNode_new(
                                                CardinalTrieNode_parent(r.index, currentNode), k),
                                    ![currentNode] = CardinalTrieNode_addChild(@, r.index, id)]
                    ELSE ns
         IN IF ~r.valid
            THEN [nodes |-> ns, lastIndex |-> li, ret |-> FALSE, threw |-> TRUE,
                  err |-> word[Len(word)]]
            ELSE CardinalTrie_insertWord_lastSymbol(ns1, li, k, alphabet, word, data,
                                                    ns1[currentNode].children[r.index],
                                                    wordIndex + 1)

\* faulty variant, for sensitivity analysis: a failed insert has advanced the counter
RECURSIVE CardinalTrie_insertWord_countsFailure(_, _, _, _, _, _, _, _)
CardinalTrie_insertWord_countsFailure(ns, li, k, alphabet, word, data, currentNode, wordIndex) ==
    IF wordIndex = Len(word)
    THEN LET nx == CardinalTrie_getNextIndex(li)
             d == IF Truthy(data) THEN data ELSE Num(nx.value)
             withWord == [ns[currentNode] EXCEPT !.word = SomeWord(word)]
         IN [nodes |-> [ns EXCEPT ![currentNode] = CardinalTrieNode_update(withWord, d)],
             lastIndex |-> IF Truthy(data) THEN li ELSE nx.lastIndex,
             ret |-> TRUE, threw |-> FALSE, err |-> ""]
    ELSE LET c == word[wordIndex + 1]
             r == CardinalTrie_resolve(k, alphabet, c)
             id == Alloc(currentNode, r.index)
             ns1 == IF ~CardinalTrieNode_hasChild(ns[currentNode], r.index)
                    THEN [ns EXCEPT ![id] = CardinalTrieNode_new(
                                                CardinalTrieNode_parent(r.index, currentNode), k),
                                    ![currentNode] = CardinalTrieNode_addChild(@, r.index, id)]
                    ELSE ns
         IN IF ~r.valid
            THEN [nodes |-> ns, lastIndex |-> li + 1, ret |-> FALSE, threw |-> TRUE,
                  err |-> c]
            ELSE CardinalTrie_insertWord_countsFailure(ns1, li, k, alphabet, word, data,
                                                    ns1[currentNode].children[r.index],
                                                    wordIndex + 1)

RECURSIVE CardinalTrie_insertWord(_, _, _, _, _, _, _, _)
CardinalTrie_insertWord(ns, li, k, alphabet, word, data, currentNode, wordIndex) ==
    IF wordIndex = Len(word)
    THEN LET nx == CardinalTrie_getNextIndex(li)
             d == IF Truthy(data) THEN data ELSE Num(nx.value)
             withWord == [ns[currentNode] EXCEPT !.word = SomeWord(word)]
         IN [nodes |-> [ns EXCEPT ![currentNode] = CardinalTrieNode_update(withWord, d)],
             lastIndex |-> IF Truthy(data) THEN li ELSE nx.lastIndex,
             ret |-> TRUE, threw |-> FALSE, err |-> ""]
    ELSE LET c == word[wordIndex + 1]
             r == CardinalTrie_resolve(k, alphabet, c)
             id == Alloc(currentNode, r.index)
             ns1 == IF ~CardinalTrieNode_hasChild(ns[currentNode], r.index)
                    THEN [ns EXCEPT ![id] = CardinalTrieNode_new(
                                                CardinalTrieNode_parent(r.index, currentNode), k),
                                    ![currentNode] = CardinalTrieNode_addChild(@, r.index, id)]
                    ELSE ns
         IN IF ~r.valid
            THEN [nodes |-> ns, lastIndex |-> li, ret |-> FALSE, threw |-> TRUE, err |-> c]
            ELSE CardinalTrie_insertWord(ns1, li, k, alphabet, word, data,
                                         ns1[currentNode].children[r.index], wordIndex + 1)

RECURSIVE CardinalTrie_searchNode(_, _, _, _, _, _)
CardinalTrie_searchNode(ns, k, alphabet, word, currentNode, wordIndex) ==
    IF wordIndex = Len(word)
    THEN IF ns[currentNode].isEndOfWord THEN currentNode ELSE Null
    ELSE LET r == CardinalTrie_resolve(k, alphabet, word[wordIndex + 1])
         IN IF ~r.valid THEN Null
            ELSE IF CardinalTrieNode_hasChild(ns[currentNode], r.index)
                 THEN CardinalTrie_searchNode(ns, k, alphabet, word,
                                              ns[currentNode].children[r.index], wordIndex + 1)
                 ELSE Null

\* faulty variant, for sensitivity analysis: a symbol that addresses no slot throws, as in _insertWord
RECURSIVE CardinalTrie_searchNode_throws_onInvalid(_, _, _, _, _, _)
CardinalTrie_searchNode_throws_onInvalid(ns, k, alphabet, word, currentNode, wordIndex) ==
    IF currentNode = Null THEN TRUE
    ELSE IF wordIndex = Len(word) THEN FALSE
    ELSE LET r == CardinalTrie_resolve(k, alphabet, word[wordIndex + 1])
         IN IF ~r.valid THEN TRUE
            ELSE IF CardinalTrieNode_hasChild(ns[currentNode], r.index)
            THEN CardinalTrie_searchNode_throws_onInvalid(ns, k, alphabet, word,
                     ns[currentNode].children[r.index], wordIndex + 1)
            ELSE FALSE

\* whether _searchNode ends in an error: a TypeError on a null currentNode; for
\* a symbol that addresses no slot it returns null
RECURSIVE CardinalTrie_searchNode_throws(_, _, _, _, _, _)
CardinalTrie_searchNode_throws(ns, k, alphabet, word, currentNode, wordIndex) ==
    IF currentNode = Null THEN TRUE
    ELSE IF wordIndex = Len(word) THEN FALSE
    ELSE LET r == CardinalTrie_resolve(k, alphabet, word[wordIndex + 1])
         IN IF ~r.valid THEN FALSE
            ELSE IF CardinalTrieNode_hasChild(ns[currentNode], r.index)
            THEN CardinalTrie_searchNode_throws(ns, k, alphabet, word,
                     ns[currentNode].children[r.index], wordIndex + 1)
            ELSE FALSE

CardinalTrie_search(ns, k, alphabet, root, word) ==
    LET node == CardinalTrie_searchNode(ns, k, alphabet, word, root, 0)
    IN IF node = Null THEN NullData ELSE ns[node].data

RECURSIVE CardinalTrie_deleteWord(_, _, _)
CardinalTrie_deleteWord(ns, root, currentNode) ==
    IF currentNode = root THEN ns
    ELSE LET parent == ns[currentNode].parent
             ns1 == CardinalTrieNode_deleteChild(ns, parent.node, parent.key)
         IN IF CardinalTrieNode_hasChildren(ns1[parent.node])
            THEN ns1
            ELSE CardinalTrie_deleteWord(ns1, root, parent.node)

\* faulty variant, for sensitivity analysis: the node is pruned whether or not it has children
CardinalTrie_delete_alwaysPrune(ns, k, alphabet, root, word) ==
    LET node == CardinalTrie_searchNode(ns, k, alphabet, word, root, 0)
    IN IF node = Null THEN [nodes |-> ns, ret |-> FALSE]
       ELSE [nodes |-> CardinalTrie_deleteWord(ns, root, node), ret |-> TRUE]

CardinalTrie_delete(ns, k, alphabet, root, word) ==
    LET node == CardinalTrie_searchNode(ns, k, alphabet, word, root, 0)
    IN IF node = Null THEN [nodes |-> ns, ret |-> FALSE]
       ELSE IF CardinalTrieNode_hasChildren(ns[node])
            THEN [nodes |-> [ns EXCEPT ![node] = CardinalTrieNode_update(@, NullData)], ret |-> TRUE]
            ELSE [nodes |-> CardinalTrie_deleteWord(ns, root, node), ret |-> TRUE]

\* faulty variant, for sensitivity analysis: true is returned without calling node.update
CardinalTrie_update_noWrite(ns, k, alphabet, root, word, data) ==
    LET node == CardinalTrie_searchNode(ns, k, alphabet, word, root, 0)
    IN IF node = Null THEN [nodes |-> ns, ret |-> FALSE]
       ELSE [nodes |-> ns, ret |-> TRUE]

CardinalTrie_update(ns, k, alphabet, root, word, data) ==
    LET node == CardinalTrie_searchNode(ns, k, alphabet, word, root, 0)
    IN IF node = Null THEN [nodes |-> ns, ret |-> FALSE]
       ELSE [nodes |-> [ns EXCEPT ![node] = CardinalTrieNode_update(@, data)], ret |-> TRUE]

CardinalTrie_getDataNode(ns, k, alphabet, root, word) ==
    CardinalTrie_searchNode(ns, k, alphabet, word, root, 0)

RECURSIVE CardinalTrie_getPathLoop(_, _, _, _, _, _, _)
CardinalTrie_getPathLoop(ns, k, alphabet, root, word, i, path) ==
    IF i <= Len(word)
    THEN CardinalTrie_getPathLoop(ns, k, alphabet, root, word, i + 1,
             Append(path, CardinalTrie_searchNode(ns, k, alphabet, SubSeq(word, 1, i), root, 0)))
    ELSE path

CardinalTrie_getPath(ns, k, alphabet, root, word) ==
    CardinalTrie_getPathLoop(ns, k, alphabet, root, word, 1, <<root>>)

\* ------------------------------------------------------------ call depth
\* the number of activations of a method that are on the call stack at once
\* when its recursion is at its deepest: every self-call is made while the
\* caller is still active
RECURSIVE Trie_insertWord_frames(_, _)
Trie_insertWord_frames(word, wordIndex) ==
    IF wordIndex = Len(word) THEN 1
    ELSE 1 + Trie_insertWord_frames(word, wordIndex + 1)

RECURSIVE Trie_searchNode_frames(_, _, _, _)
Trie_searchNode_frames(ns, word, currentNode, wordIndex) ==
    IF wordIndex = Len(word) THEN 1
    ELSE LET c == word[wordIndex + 1]
         IN IF TrieNode_hasChild(ns[currentNode], c)
            THEN 1 + Trie_searchNode_frames(ns, word, ns[currentNode].children[c],
                                            wordIndex + 1)
            ELSE 1

RECURSIVE Trie_deleteWord_frames(_, _, _)
Trie_deleteWord_frames(ns, root, currentNode) ==
    IF currentNode = root THEN 1
    ELSE LET parent == ns[currentNode].parent
             linked == ~parent.nil /\ parent.node # Null
             ns1 == IF linked THEN TrieNode_deleteChild(ns, parent.node, parent.key) ELSE ns
         IN IF linked /\ ~TrieNode_hasChildren(ns1[parent.node])
            THEN 1 + Trie_deleteWord_frames(ns1, root, parent.node)
            ELSE 1

RECURSIVE CardinalTrie_insertWord_frames(_, _, _, _)
CardinalTrie_insertWord_frames(k, alphabet, word, wordIndex) ==
    IF wordIndex = Len(word) THEN 1
    ELSE IF ~CardinalTrie_resolve(k, alphabet, word[wordIndex + 1]).valid THEN 1
    ELSE 1 + CardinalTrie_insertWord_frames(k, alphabet, word, wordIndex + 1)

RECURSIVE CardinalTrie_searchNode_frames(_, _, _, _, _, _)
CardinalTrie_searchNode_frames(ns, k, alphabet, word, currentNode, wordIndex) ==
    IF wordIndex = Len(word) THEN 1
    ELSE LET r == CardinalTrie_resolve(k, alphabet, word[wordIndex + 1])
         IN IF r.valid /\ CardinalTrieNode_hasChild(ns[currentNode], r.index)
            THEN 1 + CardinalTrie_searchNode_frames(ns, k, alphabet, word,
                         ns[currentNode].children[r.index], wordIndex + 1)
            ELSE 1

RECURSIVE CardinalTrie_deleteWord_frames(_, _, _)
CardinalTrie_deleteWord_frames(ns, root, currentNode) ==
    IF currentNode = root THEN 1
    ELSE LET parent == ns[currentNode].parent
             ns1 == CardinalTrieNode_deleteChild(ns, parent.node, parent.key)
         IN IF CardinalTrieNode_hasChildren(ns1[parent.node])
            THEN 1
            ELSE 1 + CardinalTrie_deleteWord_frames(ns1, root, parent.node)

\* ------------------------------------------------------------------ state
VARIABLES
    variant,     \* "Trie" (sparse) or "CardinalTrie" (dense)
    alphabet,    \* CardinalTrie.alphabet: <<>> (null) or <<the alphabet>>
    nodes,       \* the arena of node objects; nodes[root] is this._root
    lastIndex,   \* this._lastIndex
    last,        \* the last call: its kind, its outcome (for a query: whether it
                 \* found something; for a node's deleteChild: whether it changed
                 \* anything) and the node a mutating call ended at
    autoCount    \* history: how many inserts without present data have succeeded

vars == <<variant, alphabet, nodes, lastIndex, last, autoCount>>

\* this._root
root == 1

\* the words passed to the tree that was constructed
Words == IF variant = "Trie" THEN SparseWords ELSE DenseWords

\* the public methods, on whichever tree was constructed
insert(ns, li, word, data) ==
    IF variant = "Trie"
    THEN Trie_insertWord(ns, li, word, data, root, 0)
    ELSE CardinalTrie_insertWord(ns, li, K, alphabet, word, data, root, 0)

searchNode(ns, word) ==
    IF variant = "Trie"
    THEN Trie_searchNode(ns, word, root, 0)
    ELSE CardinalTrie_searchNode(ns, K, alphabet, word, root, 0)

\* whether search, getDataNode, update or delete of a word that is not stored
\* throws: each calls _searchNode once and returns on its null
searchNode_throws(ns, word) ==
    IF variant = "Trie"
    THEN Trie_searchNode_throws(ns, word, root, 0)
    ELSE CardinalTrie_searchNode_throws(ns, K, alphabet, word, root, 0)

\* whether getPath throws: it calls _searchNode for every non-empty prefix
getPath_throws(ns, word) ==
    \E i \in 1..Len(word) : searchNode_throws(ns, SubSeq(word, 1, i))

search(ns, word) ==
    IF variant = "Trie"
    THEN Trie_search(ns, root, word)
    ELSE CardinalTrie_search(ns, K, alphabet, root, word)

delete(ns, word) ==
    IF variant = "Trie"
    THEN Trie_delete(ns, root, word)
    ELSE CardinalTrie_delete(ns, K, alphabet, root, word)

update(ns, word, data) ==
    IF variant = "Trie"
    THEN Trie_update(ns, root, word, data)
    ELSE CardinalTrie_update(ns, K, alphabet, root, word, data)

getDataNode(ns, word) ==
    IF variant = "Trie"
    THEN Trie_getDataNode(ns, root, word)
    ELSE CardinalTrie_getDataNode(ns, K, alphabet, root, word)

getPath(ns, word) ==
    IF variant = "Trie"
    THEN Trie_getPath(ns, root, word)
    ELSE CardinalTrie_getPath(ns, K, alphabet, root, word)

\* the nodes of the tree: the objects reachable from the root through child slots
ChildrenOf(n) == {n.children[x] : x \in DOMAIN n.children} \ {Null}

RECURSIVE Reach(_, _, _)
Reach(ns, seen, frontier) ==
    IF frontier = {} THEN seen
    ELSE LET next == (UNION {ChildrenOf(ns[id]) : id \in frontier}) \ (seen \cup frontier)
         IN Reach(ns, seen \cup frontier, next)

Live(ns) == Reach(ns, {}, {root})

NoCall ==
    [op |-> "new", ret |-> FALSE, threw |-> FALSE, err |-> "", node |-> Null]

\* new Trie()  /  new CardinalTrie(K, alphabet)
Init ==
    /\ variant \in {"Trie", "CardinalTrie"}
    /\ alphabet \in (IF variant = "Trie" THEN {<<>>}
                     ELSE {CardinalTrie_constructor(K, a).alphabet :
                              a \in {x \in AlphabetArgs : ~CardinalTrie_constructor(K, x).threw}})
    /\ nodes = IF variant = "Trie"
               THEN [id \in NodeIds |-> IF id = root THEN TrieNode_new(TrieNode_nullParent)
                                        ELSE TrieNode_new(TrieNode_emptyParent)]
               ELSE [id \in NodeIds |->
                        IF id = root THEN CardinalTrieNode_new(CardinalTrieNode_nullParent, K)
                        ELSE CardinalTrieNode_new(CardinalTrieNode_emptyParent, K)]
    /\ lastIndex = 1
    /\ last = NoCall
    /\ autoCount = 0

InsertWithin(w, d, maxIndex) ==
    LET r == insert(nodes, lastIndex, w, d)
    IN /\ Cardinality(Live(r.nodes)) <= MaxNodes
       /\ r.lastIndex <= maxIndex
       /\ nodes' = r.nodes
       /\ lastIndex' = r.lastIndex
       /\ last' = [NoCall EXCEPT !.op = "insert", !.ret = r.ret, !.threw = r.threw,
                                 !.err = r.err,
                                 !.node = IF r.threw THEN Null ELSE searchNode(r.nodes, w)]
       /\ autoCount' = IF ~r.threw /\ ~Truthy(d) THEN autoCount + 1 ELSE autoCount
       /\ UNCHANGED <<variant, alphabet>>

Insert(w, d) == InsertWithin(w, d, MaxIndex)

Search(w) ==
    /\ last' = [NoCall EXCEPT !.op = "search", !.ret = (search(nodes, w) # NullData),
                                 !.threw = searchNode_throws(nodes, w)]
    /\ UNCHANGED <<variant, alphabet, nodes, lastIndex, autoCount>>

Delete(w) ==
    LET r == delete(nodes, w)
    IN /\ nodes' = r.nodes
       /\ last' = [NoCall EXCEPT !.op = "delete", !.ret = r.ret, !.node = searchNode(nodes, w)]
       /\ UNCHANGED <<variant, alphabet, lastIndex, autoCount>>

Update(w, d) ==
    LET r == update(nodes, w, d)
    IN /\ nodes' = r.nodes
       /\ last' = [NoCall EXCEPT !.op = "update", !.ret = r.ret,
                                 !.node = searchNode(nodes, w)]
       /\ UNCHANGED <<variant, alphabet, lastIndex, autoCount>>

GetDataNode(w) ==
    /\ last' = [NoCall EXCEPT !.op = "getDataNode", !.ret = (getDataNode(nodes, w) # Null),
                                 !.threw = searchNode_throws(nodes, w)]
    /\ UNCHANGED <<variant, alphabet, nodes, lastIndex, autoCount>>

GetPath(w) ==
    LET path == getPath(nodes, w)
    IN /\ last' = [NoCall EXCEPT !.op = "getPath", !.ret = (path[Len(path)] # Null),
                                 !.threw = getPath_throws(nodes, w)]
       /\ UNCHANGED <<variant, alphabet, nodes, lastIndex, autoCount>>

Next ==
    \/ \E w \in Words, d \in InsertArgs : Insert(w, d)
    \/ \E w \in Words : Search(w)
    \/ \E w \in Words : Delete(w)
    \/ \E w \in Words, d \in UpdateArgs : Update(w, d)
    \/ \E w \in Words : GetDataNode(w)
    \/ \E w \in Words : GetPath(w)

Spec == Init /\ [][Next]_vars

\* a client that only inserts and deletes, and looks words up
InsertAuto(w, d) == InsertWithin(w, d, MaxAutoIndex)

NextAuto ==
    \/ \E w \in Words, d \in InsertArgs : InsertAuto(w, d)
    \/ \E w \in Words : Delete(w)
    \/ \E w \in Words : Search(w)

SpecAuto == Init /\ [][NextAuto]_vars

\* a client that also calls the public methods of the nodes it gets from the
\* tree (root, children, getDataNode): node.update and node.deleteChild
nodeUpdate(n, data) ==
    IF variant = "Trie" THEN TrieNode_update(n, data) ELSE CardinalTrieNode_update(n, data)

\* the key of child slot i: a symbol for the sparse node, an index for the dense
nodeDeleteChild(ns, id, i) ==
    IF variant = "Trie"
    THEN TrieNode_deleteChild(ns, id, SparseSymbols[i + 1])
    ELSE CardinalTrieNode_deleteChild(ns, id, i)

NodeUpdate(id, d) ==
    /\ nodes' = [nodes EXCEPT ![id] = nodeUpdate(@, d)]
    /\ last' = [NoCall EXCEPT !.op = "node.update", !.node = id]
    /\ UNCHANGED <<variant, alphabet, lastIndex, autoCount>>

\* (the client deletes children that have no children of their own)
NodeDeleteChild(id, i) ==
    /\ Cardinality(Live(nodes) \ Live(nodeDeleteChild(nodes, id, i))) <= 1
    /\ nodes' = nodeDeleteChild(nodes, id, i)
    /\ last' = [NoCall EXCEPT !.op = "node.deleteChild", !.node = id,
                                 !.ret = (nodeDeleteChild(nodes, id, i) # nodes)]
    /\ UNCHANGED <<variant, alphabet, lastIndex, autoCount>>

NextNode ==
    \/ \E w \in Words, d \in InsertArgs : Insert(w, d)
    \/ \E w \in Words : Delete(w)
    \/ \E w \in Words, d \in UpdateArgs : Update(w, d)
    \/ \E id \in Live(nodes), d \in UpdateArgs : NodeUpdate(id, d)
    \/ \E id \in Live(nodes), i \in 0..(K - 1) : NodeDeleteChild(id, i)

SpecNode == Init /\ [][NextNode]_vars

\* a client that builds a tree with insert and calls deleteChild on its nodes,
\* also on a child that has children of its own
NodeDeleteChildAny(id, i) ==
    /\ nodes' = nodeDeleteChild(nodes, id, i)
    /\ last' = [NoCall EXCEPT !.op = "node.deleteChild", !.node = id,
                                 !.ret = (nodeDeleteChild(nodes, id, i) # nodes)]
    /\ UNCHANGED <<variant, alphabet, lastIndex, autoCount>>

NextDetach ==
    \/ \E w \in Words : Insert(w, Obj(1))
    \/ \E id \in Live(nodes), i \in 0..(K - 1) : NodeDeleteChildAny(id, i)

SpecDetach == Init /\ [][NextDetach]_vars

\* a client that only inserts, and looks words up
NextInsert ==
    \/ \E w \in Words, d \in InsertArgs : InsertAuto(w, d)
    \/ \E w \in Words : Search(w)

SpecInsert == Init /\ [][NextInsert]_vars

TypeOK ==
    /\ lastIndex \in 1..MaxIndex
    /\ Cardinality(Live(nodes)) \in 1..MaxNodes

\* ------------------------------------------------- notions the claims use
\* the object in the child slot that symbol c addresses on node n, or Null
SlotOf(n, c) ==
    IF variant = "Trie"
    THEN IF c \in DOMAIN n.children THEN n.children[c] ELSE Null
    ELSE LET r == CardinalTrie_resolve(K, alphabet, c)
         IN IF r.valid THEN n.children[r.index] ELSE Null

\* the node reached from the root by the symbols of w, terminal or not; Null if
\* a slot on the way is empty or a symbol addresses no slot
RECURSIVE WalkFrom(_, _, _, _)
WalkFrom(ns, w, cur, i) ==
    IF cur = Null \/ i > Len(w) THEN cur
    ELSE WalkFrom(ns, w, SlotOf(ns[cur], w[i]), i + 1)

Walk(ns, w) == WalkFrom(ns, w, root, 1)

\* w is stored: its walk ends at a node marked end-of-word
Stored(ns, w) == Walk(ns, w) # Null /\ ns[Walk(ns, w)].isEndOfWord

\* every symbol of w is valid for the tree (any symbol is, for the sparse tree)
ValidWord(w) ==
    variant = "Trie" \/ \A i \in 1..Len(w) : CardinalTrie_resolve(K, alphabet, w[i]).valid

StrictPrefix(s, t) == Len(s) < Len(t) /\ SubSeq(t, 1, Len(s)) = s

\* data values that count as present
PresentData == {Obj(1), Obj(2), Num(2)}

\* ------------------------------------------------------------------ claims

\* C1 (round trip): in every reachable state, for every word s valid for the
\* tree and every present data value d, insert(s, d) returns true and
\* search(s) right after it returns d.
C1_RoundTrip ==
    \A s \in Words, d \in PresentData :
        ValidWord(s) =>
            LET r == insert(nodes, lastIndex, s, d)
            IN ~r.threw /\ r.ret = TRUE /\ search(r.nodes, s) = d

\* the last call was an insert that stored the caller's data at a non-root node
C1_Witness ==
    /\ last.op = "insert" /\ last.ret
    /\ last.node \notin {Null, root}
    /\ nodes[last.node].isEndOfWord
    /\ nodes[last.node].data = Obj(1)

\* C2 (delete removes only the deleted sequence): in every reachable state, for
\* every stored s, delete(s) leaves search(t) unchanged for every t other than s.
C2_DeleteFrame ==
    \A s \in Words, t \in Words :
        (Stored(nodes, s) /\ t # s) =>
            search(delete(nodes, s).nodes, t) = search(nodes, t)

\* C3 (deleted means gone): in every reachable state, for every s, if delete(s)
\* returns true then search(s) right after it returns null.
C3_DeletedIsAbsent ==
    \A s \in Words :
        LET r == delete(nodes, s)
        IN r.ret => search(r.nodes, s) = NullData

\* C4 (deletion with descendants): in every reachable state, for every stored s
\* whose terminal node has a child, delete(s) returns true, search(s) becomes
\* null, the tree keeps exactly its nodes, and search(t) is unchanged for every
\* stored t that s is a strict prefix of.
C4_DeleteWithDescendants ==
    \A s \in Words :
        (Stored(nodes, s) /\ ChildrenOf(nodes[Walk(nodes, s)]) # {}) =>
            LET r == delete(nodes, s)
            IN /\ r.ret = TRUE
               /\ search(r.nodes, s) = NullData
               /\ Live(r.nodes) = Live(nodes)
               /\ \A id \in Live(nodes) : ChildrenOf(r.nodes[id]) = ChildrenOf(nodes[id])
               /\ \A t \in Words :
                    (StrictPrefix(s, t) /\ Stored(nodes, t)) =>
                        search(r.nodes, t) = search(nodes, t)

\* the last call deleted a word whose node is still in the tree, with its
\* children, no longer terminal, below which another word is still stored
C4_Witness ==
    /\ last.op = "delete" /\ last.ret
    /\ last.node \in Live(nodes)
    /\ ~nodes[last.node].isEndOfWord
    /\ \E ch \in ChildrenOf(nodes[last.node]) : nodes[ch].isEndOfWord

AbsentData == {Undefined, NullData, Num(0)}

\* C6 (auto-indexing): a freshly constructed tree has counter 1, and in every
\* reachable state the next successful insert without present data, the n-th
\* one, stores n at the terminal node of its word (n = autoCount + 1), so that
\* search returns n for it.
C6_AutoIndex ==
    /\ last.op = "new" => lastIndex = 1
    /\ \A s \in Words, d \in AbsentData :
         ValidWord(s) =>
            LET r == insert(nodes, lastIndex, s, d)
            IN /\ r.ret = TRUE
               /\ Stored(r.nodes, s)
               /\ r.nodes[Walk(r.nodes, s)].data = Num(autoCount + 1)
               /\ search(r.nodes, s) = Num(autoCount + 1)

\* three words were inserted without data, the third by the last call, and
\* they hold 1, 2 and 3
C6_Witness ==
    /\ last.op = "insert" /\ last.ret
    /\ autoCount = 3
    /\ nodes[last.node].data = Num(3)
    /\ \E a \in Live(nodes), b \in Live(nodes) :
         /\ nodes[a].isEndOfWord /\ nodes[a].data = Num(1)
         /\ nodes[b].isEndOfWord /\ nodes[b].data = Num(2)

\* C7 (prefix non-interference): in every reachable state, for every word s2 and
\* data d, insert(s2, d), also one that fails, leaves search(t) unchanged for
\* every t other than s2; and whenever s1 is a strict prefix of a stored s2, a
\* word of a length strictly between theirs that is not stored is not found.
C7_InsertFrame ==
    /\ \A s2 \in Words, d \in InsertArgs \cup {Num(0)} :
         LET after == insert(nodes, lastIndex, s2, d).nodes
         IN \A t \in Words \ {s2} : search(after, t) = search(nodes, t)
    /\ \A t \in Words : ~Stored(nodes, t) => search(nodes, t) = NullData

\* the last call inserted a word two symbols longer than a stored prefix of it
\* (the empty word), both hold their own data, and the word between them, which
\* was not inserted, is not found
C7_Witness ==
    /\ last.op = "insert" /\ last.ret
    /\ last.node \notin {Null, root}
    /\ nodes[root].isEndOfWord
    /\ LET mid == nodes[last.node].parent.node
       IN /\ mid \notin {Null, root}
          /\ nodes[mid].parent.node = root
          /\ ~nodes[mid].isEndOfWord
          /\ nodes[last.node].isEndOfWord
          /\ nodes[last.node].data # nodes[root].data

\* C8 (getPath elements): in every reachable state, for every word s and every
\* i in 1..|s|, element i of getPath(s) (element 0 is the root) is the node
\* reached from the root by the first i symbols of s, and is null only if that
\* walk leaves the tree.
C8_PathElements ==
    \A s \in Words :
        \A i \in 1..Len(s) :
            getPath(nodes, s)[i + 1] = Walk(nodes, SubSeq(s, 1, i))

\* C9 (path shape): in every reachable state, for every word s of length n,
\* getPath(s) has n + 1 elements, the first is the root, and the last is a node
\* marked end-of-word exactly when s is stored.
C9_PathShape ==
    \A s \in Words :
        LET path == getPath(nodes, s)
            end == path[Len(path)]
        IN /\ Len(path) = Len(s) + 1
           /\ path[1] = root
           /\ (end # Null /\ nodes[end].isEndOfWord) <=> Stored(nodes, s)

\* the last call was a getPath that ended at a terminal node, in a tree that
\* stores a word of two symbols and does not store that word's one-symbol prefix
C9_Witness ==
    /\ last.op = "getPath" /\ last.ret
    /\ \E s \in Words :
         /\ Len(s) = 2
         /\ Stored(nodes, s)
         /\ ~Stored(nodes, SubSeq(s, 1, 1))

\* the tree's nodes and their child slots are the same in ns1 and ns2
SameShape(ns1, ns2) ==
    /\ Live(ns1) = Live(ns2)
    /\ \A id \in Live(ns1) : ns1[id].children = ns2[id].children

\* C10 as claimed (update in place): in every reachable state, for a stored s
\* and any data d2, update(s, d2) returns true, makes search(s) return d2 and
\* leaves the tree's shape and getPath(s) as they were; for an s that is not
\* stored it returns false and changes nothing.
C10_UpdateInPlace_Claimed ==
    \A s \in Words, d2 \in PresentData \cup AbsentData :
        LET r == update(nodes, s, d2)
        IN IF Stored(nodes, s)
           THEN /\ r.ret = TRUE
                /\ search(r.nodes, s) = d2
                /\ SameShape(r.nodes, nodes)
                /\ getPath(r.nodes, s) = getPath(nodes, s)
           ELSE r.ret = FALSE /\ r.nodes = nodes

\* C10 as amended: in every reachable state, for a stored s, update(s, d2)
\* returns true and leaves the tree's shape and the length of getPath(s) as they
\* were; with present (truthy) d2 it makes search(s) return d2 and leaves
\* getPath(s) as it was; with absent (falsy) d2 it makes search(s) return null;
\* for an s that is not stored it returns false and changes nothing.
C10_UpdateInPlace ==
    \A s \in Words, d2 \in PresentData \cup AbsentData :
        LET r == update(nodes, s, d2)
        IN IF Stored(nodes, s)
           THEN /\ r.ret = TRUE
                /\ SameShape(r.nodes, nodes)
                /\ Len(getPath(r.nodes, s)) = Len(getPath(nodes, s))
                /\ Truthy(d2) => /\ search(r.nodes, s) = d2
                                 /\ getPath(r.nodes, s) = getPath(nodes, s)
                /\ ~Truthy(d2) => search(r.nodes, s) = NullData
           ELSE r.ret = FALSE /\ r.nodes = nodes

\* the last call updated a stored word, below the root, to the caller's data
C10_Witness ==
    /\ last.op = "update" /\ last.ret
    /\ last.node \in Live(nodes) \ {root}
    /\ nodes[last.node].isEndOfWord
    /\ nodes[last.node].data = Obj(1)
    /\ lastIndex > 1

\* C11 (idempotent delete): in every reachable state, for every s that is not
\* stored (never inserted, deleted, only a prefix of a stored word, or holding a
\* symbol that addresses no slot), delete(s) returns false and leaves every
\* node object as it was: the nodes of the tree, their child slots, parent
\* links, data, flags and cached words; and a delete call that returns false
\* changes neither the nodes nor the counter.
C11_IdempotentDelete ==
    /\ [](\A s \in Words :
            ~Stored(nodes, s) =>
                LET r == delete(nodes, s)
                IN r.ret = FALSE /\ r.nodes = nodes)
    /\ [][(last'.op = "delete" /\ ~last'.ret) =>
              (nodes' = nodes /\ lastIndex' = lastIndex)]_vars

\* the last call was a delete that returned false, in a tree that stores a word
\* of two symbols whose one-symbol prefix is not stored, with the counter advanced
C11_Witness ==
    /\ last.op = "delete" /\ ~last.ret
    /\ lastIndex > 1
    /\ \E s \in Words :
         /\ Len(s) = 2
         /\ Stored(nodes, s)
         /\ ~Stored(nodes, SubSeq(s, 1, 1))

\* C12 (invalid-symbol rejection, dense tree): in every reachable state of a
\* dense tree, for every word s holding a symbol that addresses no slot (not in
\* the alphabet; without an alphabet, not a digit below k) and every data
\* argument, insert(s) throws an error whose message names the first such
\* symbol of s, and search(s) returns null before the call and after it.
C12_InvalidSymbol ==
    variant = "CardinalTrie" =>
        \A s \in Words, d \in InsertArgs :
            ~ValidWord(s) =>
                LET r == insert(nodes, lastIndex, s, d)
                    bad == {i \in 1..Len(s) : ~CardinalTrie_resolve(K, alphabet, s[i]).valid}
                    first == CHOOSE i \in bad : \A j \in bad : i <= j
                IN /\ r.threw
                   /\ r.err = s[first]
                   /\ search(nodes, s) = NullData
                   /\ search(r.nodes, s) = NullData

\* the last call was an insert into a dense tree that threw on the second
\* symbol of its word, after it had walked the first one
C12_Witness ==
    /\ variant = "CardinalTrie"
    /\ last.op = "insert" /\ last.threw
    /\ \E s \in Words :
         /\ Len(s) = 2
         /\ CardinalTrie_resolve(K, alphabet, s[1]).valid
         /\ s[2] = last.err
         /\ s[1] # last.err
         /\ Walk(nodes, SubSeq(s, 1, 1)) # Null

\* C13 (not-found never raises): in every reachable state, for every word s that
\* is not stored, also one holding a symbol that addresses no slot, none of
\* search, getDataNode, getPath, update and delete throws: search and
\* getDataNode return null, getPath returns |s| + 1 elements, the root and then
\* elements the last of which is null, update and delete return false.
C13_NotFoundNeverRaises ==
    \A s \in Words :
        ~Stored(nodes, s) =>
            /\ ~searchNode_throws(nodes, s)
            /\ ~getPath_throws(nodes, s)
            /\ search(nodes, s) = NullData
            /\ getDataNode(nodes, s) = Null
            /\ Len(getPath(nodes, s)) = Len(s) + 1
            /\ Len(s) > 0 => getPath(nodes, s)[Len(s) + 1] = Null
            /\ \A d \in UpdateArgs : update(nodes, s, d).ret = FALSE
            /\ delete(nodes, s).ret = FALSE

\* the last call was a getPath on a dense tree that found no terminal node and
\* did not throw, for a word holding a symbol that addresses no slot, in a tree
\* that stores a word
C13_Witness ==
    /\ variant = "CardinalTrie"
    /\ last.op = "getPath" /\ ~last.ret /\ ~last.threw
    /\ \E s \in Words : ~ValidWord(s) /\ getPath(nodes, s)[Len(s) + 1] = Null
    /\ \E t \in Words : Len(t) > 0 /\ Stored(nodes, t)

\* C14 (no reachable garbage): in every reachable state, every node of the tree
\* other than the root is end-of-word or has a child.
C14_NoGarbage ==
    \A id \in Live(nodes) \ {root} :
        nodes[id].isEndOfWord \/ ChildrenOf(nodes[id]) # {}

\* C15 (the root is never terminal): in every reachable state the root object is
\* the one the constructor made (its parent is null) and it is not end-of-word;
\* in particular insert of the empty word, with or without data, leaves the
\* root's isEndOfWord false.
C15_RootNotTerminal ==
    /\ nodes[root].parent.nil
    /\ ~nodes[root].isEndOfWord
    /\ \A d \in InsertArgs :
         ~insert(nodes, lastIndex, <<>>, d).nodes[root].isEndOfWord

\* ------------------------------------------- the node constructors' checks
\* JavaScript values passed as parent.key: null, undefined, a string, a number
KeyNull == [t |-> "null", n |-> 0, s |-> ""]
KeyUndefined == [t |-> "undefined", n |-> 0, s |-> ""]
KeyStr(s) == [t |-> "string", n |-> 0, s |-> s]
KeyNum(n) == [t |-> "number", n |-> n, s |-> ""]
\* !key
KeyFalsy(key) ==
    \/ key.t \in {"null", "undefined"}
    \/ key.t = "string" /\ key.s = ""
    \/ key.t = "number" /\ key.n = 0

\* JavaScript values passed as parent.node: null, a node object of either class
\* (a reference into the arena), an object of another class
RefNull == [class |-> "null", id |-> Null]
RefNode(class, id) == [class |-> class, id |-> id]
RefOther == [class |-> "Object", id |-> Null]

\* JavaScript values passed as parent: null, undefined (the default applies),
\* an object with the properties key and node
ParentNull == [t |-> "null", key |-> KeyNull, node |-> RefNull]
ParentOmitted == [t |-> "undefined", key |-> KeyNull, node |-> RefNull]
ParentObj(key, node) == [t |-> "object", key |-> key, node |-> node]

\* new TrieNode(parent, isRoot): the two argument checks, then the assignments
TrieNode_constructor(parent, isRoot) ==
    LET p == IF parent.t = "undefined" THEN ParentObj(KeyStr(""), RefNull) ELSE parent
        \* parent?.key and parent?.node are undefined for a null parent
        key == IF p.t = "null" THEN KeyUndefined ELSE p.key
        node == IF p.t = "null" THEN RefNull ELSE p.node
        stored == IF p.t = "null" THEN TrieNode_nullParent
                  ELSE TrieNode_parent(key.s, node.id)
    IN IF ~isRoot /\ (KeyFalsy(key) \/ key.t # "string")
       THEN [threw |-> TRUE, err |-> "Parent key cannot be null, empty, or not of type string!",
             node |-> TrieNode_new(TrieNode_emptyParent)]
       ELSE IF ~isRoot /\ (node.class = "null" \/ node.class # "TrieNode")
       THEN [threw |-> TRUE,
             err |-> "Parent node cannot be null, empty, or not an instance of TrieNode",
             node |-> TrieNode_new(TrieNode_emptyParent)]
       ELSE [threw |-> FALSE, err |-> "", node |-> TrieNode_new(stored)]

\* new CardinalTrieNode(parent, isRoot, k): reading parent.key of a null parent
\* is a TypeError; the key is checked for null and for its type only
CardinalTrieNode_constructor(parent, isRoot, k) ==
    LET p == IF parent.t = "undefined" THEN ParentObj(KeyNull, RefNull) ELSE parent
        stored == IF p.t = "null" THEN CardinalTrieNode_nullParent
                  ELSE CardinalTrieNode_parent(p.key.n, p.node.id)
    IN IF ~isRoot /\ p.t = "null"
       THEN [threw |-> TRUE, err |-> "TypeError",
             node |-> CardinalTrieNode_new(CardinalTrieNode_emptyParent, k)]
       ELSE IF ~isRoot /\ (p.key.t = "null" \/ p.key.t # "number")
       THEN [threw |-> TRUE, err |-> "Parent key cannot be null or not type of number!",
             node |-> CardinalTrieNode_new(CardinalTrieNode_emptyParent, k)]
       ELSE IF ~isRoot /\ (p.node.class = "null" \/ p.node.class # "CardinalTrieNode")
       THEN [threw |-> TRUE,
             err |-> "Parent node cannot be null or not instance of CardinalTrieNode",
             node |-> CardinalTrieNode_new(CardinalTrieNode_emptyParent, k)]
       ELSE [threw |-> FALSE, err |-> "", node |-> CardinalTrieNode_new(stored, k)]

\* the arguments the constructors are called with: as parent.node, also the
\* nodes of the tree
KeyArgs == {KeyNull, KeyUndefined, KeyStr(""), KeyStr("a"), KeyNum(0), KeyNum(K - 1), KeyNum(K),
            KeyNum(-1)}
NodeArgs ==
    {RefNull, RefOther} \cup
    {RefNode(class, id) : class \in {"TrieNode", "CardinalTrieNode"}, id \in Live(nodes)}
ParentArgs == {ParentNull, ParentOmitted} \cup {ParentObj(k, n) : k \in KeyArgs, n \in NodeArgs}

\* the node class of the tree, and its constructor
NodeClass == IF variant = "Trie" THEN "TrieNode" ELSE "CardinalTrieNode"
construct(parent, isRoot) ==
    IF variant = "Trie"
    THEN TrieNode_constructor(parent, isRoot)
    ELSE CardinalTrieNode_constructor(parent, isRoot, K)

\* C16 (node construction contract): in every reachable state, for every parent
\* argument, also one that refers to a node of the tree, constructing a node
\* that is not a root throws unless the parent is an object whose key is well
\* typed (sparse: a non-empty string; dense: an integer in [0, k)) and whose
\* node is a node of the tree's node class, and then succeeds; constructing a
\* root succeeds, also with a null parent.
C16_ConstructionContract ==
    \A parent \in ParentArgs :
        /\ ~construct(parent, FALSE).threw <=>
              /\ parent.t = "object"
              /\ parent.node.class = NodeClass
              /\ IF variant = "Trie"
                 THEN parent.key.t = "string" /\ parent.key.s # ""
                 ELSE parent.key.t = "number" /\ parent.key.n \in 0..(K - 1)
        /\ ~construct(parent, TRUE).threw

\* C17 (alphabet of a dense tree): construction of a dense tree throws for every
\* supplied alphabet whose length differs from k and for no other argument; and
\* in every reachable state of a tree built with an alphabet, the symbol at
\* (0-based) position i of the alphabet addresses child slot i of a node in
\* insert and in search: insert of the one-symbol word puts its terminal node in
\* slot i of the root, and search finds it there.
C17_Alphabet ==
    /\ \A a \in AlphabetArgs :
         CardinalTrie_constructor(K, a).threw <=> (a # <<>> /\ Len(a[1]) # K)
    /\ (variant = "CardinalTrie" /\ alphabet # <<>>) =>
         /\ Len(alphabet[1]) = K
         /\ \A i \in 0..(K - 1) :
              LET w == <<alphabet[1][i + 1]>>
                  r == insert(nodes, lastIndex, w, Obj(2))
                  slot == r.nodes[root].children[i]
              IN /\ ~r.threw
                 /\ slot # Null
                 /\ r.nodes[slot].isEndOfWord /\ r.nodes[slot].data = Obj(2)
                 /\ \A j \in 0..(K - 1) :
                      j # i => r.nodes[root].children[j] = nodes[root].children[j]
                 /\ searchNode(r.nodes, w) = slot
                 /\ search(r.nodes, w) = Obj(2)

\* the last call inserted, into a dense tree built with an alphabet, the
\* one-symbol word of the alphabet's second symbol, and its node is in slot 1
C17_Witness ==
    /\ variant = "CardinalTrie" /\ alphabet # <<>>
    /\ last.op = "insert" /\ last.ret
    /\ last.node # Null
    /\ last.node = nodes[root].children[1]
    /\ nodes[last.node].word = SomeWord(<<alphabet[1][2]>>)

\* the call depth of the public methods, on whichever tree was constructed
insertWord_frames(word) ==
    IF variant = "Trie" THEN Trie_insertWord_frames(word, 0)
    ELSE CardinalTrie_insertWord_frames(K, alphabet, word, 0)

searchNode_frames(ns, word) ==
    IF variant = "Trie" THEN Trie_searchNode_frames(ns, word, root, 0)
    ELSE CardinalTrie_searchNode_frames(ns, K, alphabet, word, root, 0)

deleteWord_frames(ns, node) ==
    IF variant = "Trie" THEN Trie_deleteWord_frames(ns, root, node)
    ELSE CardinalTrie_deleteWord_frames(ns, root, node)

\* C18 (traversal depth): in every reachable state, the call-stack depth of
\* insert, of search and of delete does not depend on the length of the word:
\* for every word, _insertWord, _searchNode and (for a stored word that is a
\* leaf) _deleteWord have as many activations on the stack as for the empty
\* word, whose traversal ends at the root.
C18_TraversalDepth ==
    \A s \in Words :
        /\ insertWord_frames(s) = insertWord_frames(<<>>)
        /\ searchNode_frames(nodes, s) = searchNode_frames(nodes, <<>>)
        /\ (Stored(nodes, s) /\ ChildrenOf(nodes[Walk(nodes, s)]) = {}) =>
              deleteWord_frames(nodes, Walk(nodes, s)) = deleteWord_frames(nodes, root)

\* C19 (presence invariant): in every state reachable through the tree's
\* insert, update and delete and the nodes' update and deleteChild, every node
\* object, in the tree or detached, is end-of-word exactly when its data is
\* present; update of a node with an absent value clears the flag and stores
\* that value; and a node's update changes no other node.
C19_Presence ==
    /\ [](\A id \in NodeIds : nodes[id].isEndOfWord <=> Truthy(nodes[id].data))
    /\ [](\A id \in Live(nodes), d \in AbsentData :
            LET n == nodeUpdate(nodes[id], d)
            IN ~n.isEndOfWord /\ n.data = d)
    /\ [][last'.op = "node.update" =>
            \A id \in NodeIds \ {last'.node} : nodes'[id] = nodes[id]]_vars

\* the last call was update on a node below the root, with an absent value,
\* which the node now holds, its flag cleared, while another node is terminal
C19_Witness ==
    /\ last.op = "node.update"
    /\ last.node # root
    /\ nodes[last.node].data = Num(0)
    /\ ~nodes[last.node].isEndOfWord
    /\ \E id \in Live(nodes) \ {last.node} : nodes[id].isEndOfWord

\* C20 (stored-sequence invariant): in every reachable state, every node of the
\* tree that is end-of-word caches a word, and that word is the sequence of
\* symbols that leads from the root to the node; and every node object that is
\* not end-of-word, in the tree or removed from it, has a null word.
C20_StoredSequence ==
    /\ \A id \in Live(nodes) :
         nodes[id].isEndOfWord =>
            /\ nodes[id].word # NullWord
            /\ nodes[id].word[1] \in Words
            /\ Walk(nodes, nodes[id].word[1]) = id
    /\ \A id \in NodeIds :
         ~nodes[id].isEndOfWord => nodes[id].word = NullWord

\* the last call deleted a word whose node was pruned and now has a null word,
\* while the node of another word, below the root, still caches that word
C20_Witness ==
    /\ last.op = "delete" /\ last.ret
    /\ last.node \notin Live(nodes)
    /\ nodes[last.node].word = NullWord
    /\ \E id \in Live(nodes) \ {root} :
         /\ nodes[id].isEndOfWord
         /\ nodes[id].word # NullWord
         /\ Walk(nodes, nodes[id].word[1]) = id

\* the parent object a node holds when it sits in child slot c of node n, and
\* the parent object unlink leaves
parentLink(c, n) ==
    IF variant = "Trie" THEN TrieNode_parent(c, n) ELSE CardinalTrieNode_parent(c, n)
emptySentinel ==
    IF variant = "Trie" THEN TrieNode_emptyParent ELSE CardinalTrieNode_emptyParent

\* C21 (parent-link consistency): in every reachable state, for every node n of
\* the tree and every occupied child slot c of n, the child's parent object is
\* {key: c, node: n}; and for every stored s, every node that delete(s) removes
\* from the tree has the empty parent object afterwards and is in no child slot
\* of any node object.
C21_ParentLinks ==
    /\ \A n \in Live(nodes) :
         \A c \in DOMAIN nodes[n].children :
            nodes[n].children[c] # Null =>
                nodes[nodes[n].children[c]].parent = parentLink(c, n)
    /\ \A s \in Words :
         Stored(nodes, s) =>
            LET r == delete(nodes, s)
            IN \A id \in Live(nodes) \ Live(r.nodes) :
                 /\ r.nodes[id].parent = emptySentinel
                 /\ \A n \in NodeIds : id \notin ChildrenOf(r.nodes[n])

\* the last call deleted a word and removed its node, which now has the empty
\* parent object, from a tree that still has a node below the root, linked to it
C21_Witness ==
    /\ last.op = "delete" /\ last.ret
    /\ last.node \notin Live(nodes) \cup {Null}
    /\ nodes[last.node].parent = emptySentinel
    /\ \E n \in ChildrenOf(nodes[root]) :
         nodes[n].parent.node = root /\ nodes[n].isEndOfWord

\* C22 (effect of a failed insert): in every reachable state of a dense tree,
\* for every word s whose first symbol that addresses no slot is at (0-based)
\* position i, insert(s) throws and leaves the counter as it was; no node
\* object's data, flag or cached word changes; search(t) is unchanged for every
\* t; the nodes of the tree afterwards are those before and the nodes on the
\* path of the first i symbols of s, which is complete; the nodes that are new
\* are not end-of-word; and every node that was in the tree keeps its occupied
\* slots.
C22_FailedInsert ==
    variant = "CardinalTrie" =>
        \A s \in Words, d \in InsertArgs :
            ~ValidWord(s) =>
                LET r == insert(nodes, lastIndex, s, d)
                    bad == {j \in 1..Len(s) : ~CardinalTrie_resolve(K, alphabet, s[j]).valid}
                    i == (CHOOSE j \in bad : \A j2 \in bad : j <= j2) - 1
                    path == {Walk(r.nodes, SubSeq(s, 1, j)) : j \in 0..i}
                IN /\ r.threw
                   /\ r.lastIndex = lastIndex
                   /\ \A id \in NodeIds :
                        /\ r.nodes[id].data = nodes[id].data
                        /\ r.nodes[id].isEndOfWord = nodes[id].isEndOfWord
                        /\ r.nodes[id].word = nodes[id].word
                   /\ \A t \in Words : search(r.nodes, t) = search(nodes, t)
                   /\ Null \notin path
                   /\ Live(r.nodes) = Live(nodes) \cup path
                   /\ \A id \in Live(r.nodes) \ Live(nodes) : ~r.nodes[id].isEndOfWord
                   /\ \A id \in Live(nodes) :
                        \A c \in DOMAIN nodes[id].children :
                            nodes[id].children[c] # Null =>
                                r.nodes[id].children[c] = nodes[id].children[c]

\* the last call was an insert into a dense tree that threw and left behind a
\* node below the root that is not end-of-word and has no children, while the
\* root's other slot holds a stored word
C22_Witness ==
    /\ variant = "CardinalTrie"
    /\ last.op = "insert" /\ last.threw
    /\ \E a \in ChildrenOf(nodes[root]), b \in ChildrenOf(nodes[root]) :
         /\ ~nodes[a].isEndOfWord /\ ChildrenOf(nodes[a]) = {}
         /\ nodes[b].isEndOfWord

\* C23 (counter monotonicity and frame): the counter never decreases; in every
\* reachable state insert adds exactly 1 to it when it succeeds with an absent
\* data argument and leaves it unchanged when the data is present or the insert
\* fails; every step that is not an insert (search, getDataNode, getPath,
\* update, delete) leaves it unchanged; and every number a node object holds as
\* present data is below the counter, so that the next generated value is held
\* by no node, also not by one that was deleted.
C23_Counter ==
    /\ [][lastIndex' >= lastIndex]_vars
    /\ [][last'.op # "insert" => lastIndex' = lastIndex]_vars
    /\ [](\A s \in Words, d \in InsertArgs \cup {Num(0), NullData} :
            LET r == insert(nodes, lastIndex, s, d)
            IN r.lastIndex = IF ~r.threw /\ ~Truthy(d) THEN lastIndex + 1 ELSE lastIndex)
    /\ [](\A id \in NodeIds :
            (nodes[id].data.t = "number" /\ Truthy(nodes[id].data)) =>
                nodes[id].data.v < lastIndex)

\* the last call inserted a word without data and stored 2, the counter is 3,
\* and no node of the tree holds 1 any more
C23_Witness ==
    /\ last.op = "insert" /\ last.ret
    /\ last.node # Null
    /\ nodes[last.node].data = Num(2)
    /\ lastIndex = 3
    /\ \A id \in Live(nodes) : nodes[id].data # Num(1)

\* ------------------------------------------------ sparse and dense, side by side
\* the sparse node that corresponds to a dense node of a tree with alphabet
\* alpha: slot i is the child under the key alpha[i] (0-based), an empty slot
\* is a missing key, and the parent key is translated likewise
toSparseNode(alpha, n) ==
    LET occupied == {i \in DOMAIN n.children : n.children[i] # Null}
    IN [parent |-> IF n.parent.nil THEN TrieNode_nullParent
                   ELSE IF n.parent.node = Null THEN TrieNode_emptyParent
                   ELSE TrieNode_parent(alpha[n.parent.key + 1], n.parent.node),
        children |-> [c \in {alpha[i + 1] : i \in occupied} |->
                         n.children[CHOOSE i \in occupied : alpha[i + 1] = c]],
        data |-> n.data, isEndOfWord |-> n.isEndOfWord, word |-> n.word]

toSparse(alpha, ns) == [id \in DOMAIN ns |-> toSparseNode(alpha, ns[id])]

\* the positions of a path that are null
absentAt(path) == {i \in 1..Len(path) : path[i] = Null}

\* C24 (sparse/dense equivalence): a new sparse tree corresponds to a new dense
\* tree with an alphabet, and in every reachable state of a dense tree with
\* alphabet A, on the sparse tree that corresponds to it, every insert, update,
\* delete, search and getPath call with a word over A gives the sparse tree the
\* same return value (getPath: the same length and the same null positions),
\* the same counter, and a tree that corresponds to the dense tree after the
\* same call: the same shape, data and end-of-word flags.
C24_SparseDense ==
    (variant = "CardinalTrie" /\ alphabet # <<>>) =>
        LET A == alphabet[1]
            sp == toSparse(A, nodes)
        IN /\ last.op = "new" =>
                sp = [id \in NodeIds |-> IF id = root THEN TrieNode_new(TrieNode_nullParent)
                                         ELSE TrieNode_new(TrieNode_emptyParent)]
           /\ \A w \in WordsOver({A[i] : i \in 1..Len(A)}) :
                /\ \A d \in InsertArgs \cup {Num(0)} :
                     LET rd == CardinalTrie_insertWord(nodes, lastIndex, K, alphabet, w, d, root, 0)
                         rs == Trie_insertWord(sp, lastIndex, w, d, root, 0)
                     IN /\ rs.ret = rd.ret /\ rs.threw = rd.threw
                        /\ rs.lastIndex = rd.lastIndex
                        /\ rs.nodes = toSparse(A, rd.nodes)
                /\ \A d \in UpdateArgs :
                     LET rd == CardinalTrie_update(nodes, K, alphabet, root, w, d)
                         rs == Trie_update(sp, root, w, d)
                     IN rs.ret = rd.ret /\ rs.nodes = toSparse(A, rd.nodes)
                /\ LET rd == CardinalTrie_delete(nodes, K, alphabet, root, w)
                       rs == Trie_delete(sp, root, w)
                   IN rs.ret = rd.ret /\ rs.nodes = toSparse(A, rd.nodes)
                /\ Trie_search(sp, root, w) = CardinalTrie_search(nodes, K, alphabet, root, w)
                /\ LET pd == CardinalTrie_getPath(nodes, K, alphabet, root, w)
                       ps == Trie_getPath(sp, root, w)
                   IN Len(ps) = Len(pd) /\ absentAt(ps) = absentAt(pd)

\* a dense tree with an alphabet in which the last call pruned a word, whose
\* node now has the empty parent object, while a one-symbol word stays stored
C24_Witness ==
    /\ variant = "CardinalTrie" /\ alphabet # <<>>
    /\ last.op = "delete" /\ last.ret
    /\ last.node \notin Live(nodes) \cup {Null}
    /\ nodes[last.node].parent = CardinalTrieNode_emptyParent
    /\ \E s \in Words : Len(s) = 1 /\ Stored(nodes, s)

\* the keys deleteChild is called with: for the sparse node also a key it has
\* no child under, for the dense node also indices outside 0..k-1
DeleteChildKeys == IF variant = "Trie" THEN {"a", "1", "2"} ELSE -1..K

\* node.deleteChild(key) on the node object id
deleteChild(ns, id, key) ==
    IF variant = "Trie" THEN TrieNode_deleteChild(ns, id, key)
    ELSE CardinalTrieNode_deleteChild(ns, id, key)

\* C25 (deleteChild is single-level): in every reachable state, for every node
\* n of the tree and every key: if n has no child under the key, or the key is
\* out of range, deleteChild changes no node object; otherwise the child loses
\* its flag, data and cached word and gets the empty parent object while its
\* own child slots stay as they were, n loses that slot and keeps every other
\* field and slot, and no other node object changes.
C25_DeleteChild ==
    \A id \in Live(nodes), key \in DeleteChildKeys :
        LET r == deleteChild(nodes, id, key)
            occupied == /\ key \in DOMAIN nodes[id].children
                        /\ nodes[id].children[key] # Null
        IN IF ~occupied THEN r = nodes
           ELSE LET ch == nodes[id].children[key]
                IN /\ r[ch] = [nodes[ch] EXCEPT !.isEndOfWord = FALSE, !.data = NullData,
                                                !.word = NullWord, !.parent = emptySentinel]
                   /\ r[ch].children = nodes[ch].children
                   /\ ch \notin ChildrenOf(r[id])
                   /\ key \in DOMAIN r[id].children => r[id].children[key] = Null
                   /\ \A c \in DOMAIN nodes[id].children \ {key} :
                        c \in DOMAIN r[id].children /\ r[id].children[c] = nodes[id].children[c]
                   /\ r[id].data = nodes[id].data
                   /\ r[id].isEndOfWord = nodes[id].isEndOfWord
                   /\ r[id].word = nodes[id].word
                   /\ r[id].parent = nodes[id].parent
                   /\ \A other \in NodeIds \ {id, ch} : r[other] = nodes[other]

\* the last call was a deleteChild on the root that detached a node with a
\* child: the detached node has the empty parent object, no flag and no data,
\* still holds its child, and the child still names it as its parent
C25_Witness ==
    /\ last.op = "node.deleteChild" /\ last.ret
    /\ last.node = root
    /\ \E ch \in NodeIds \ Live(nodes) :
         /\ nodes[ch].parent = emptySentinel
         /\ ~nodes[ch].isEndOfWord /\ nodes[ch].data = NullData
         /\ \E gc \in ChildrenOf(nodes[ch]) :
              nodes[gc].parent.node = ch /\ nodes[gc].isEndOfWord

\* C26 (re-insert overwrites in place): in every reachable state, for every
\* stored s, insert(s, d2) returns true, leaves the tree with exactly the nodes
\* and occupied slots it had, and changes no other node object; with present
\* d2, search(s) then returns d2; without data, search(s) then returns the
\* counter's value, which differs from the data s held.
C26_Reinsert ==
    \A s \in Words :
        Stored(nodes, s) =>
            \A d2 \in PresentData \cup AbsentData :
                LET r == insert(nodes, lastIndex, s, d2)
                    n == Walk(nodes, s)
                IN /\ r.ret = TRUE /\ ~r.threw
                   /\ Live(r.nodes) = Live(nodes)
                   /\ \A id \in NodeIds \ {n} : r.nodes[id] = nodes[id]
                   /\ r.nodes[n].children = nodes[n].children
                   /\ r.nodes[n].parent = nodes[n].parent
                   /\ search(r.nodes, s) = IF Truthy(d2) THEN d2 ELSE Num(lastIndex)
                   /\ ~Truthy(d2) => search(r.nodes, s) # search(nodes, s)

\* only inserts were made, two of them without data, the last call among
\* them, and a single node is end-of-word and holds 2: the word that got 1 was
\* inserted again
C26_Witness ==
    /\ last.op = "insert" /\ last.ret
    /\ autoCount = 2
    /\ last.node # Null
    /\ nodes[last.node].data = Num(2)
    /\ \A id \in Live(nodes) \ {last.node} : ~nodes[id].isEndOfWord
    /\ Cardinality(Live(nodes)) = 3


====
